---- MODULE Spec2Model ----
(***************************************************************************)
(* A model of the partition placement engine of kafka-kit: the partition  *)
(* map and PartitionMap.Rebuild with its two placement routines (kafkazk), *)
(* and the relocation planner of topicmappr's rebalance command.           *)
(*                                                                         *)
(* float64 quantities (partition sizes, StorageFree) are integers here;   *)
(* every value of the model is an integer a float64 holds exactly.        *)
(* Brokers carry no tags: the Broker values of the source                 *)
(* (kafkazk/brokers_test.go) have ID, Locality, Used, Replace and         *)
(* StorageFree only.                                                       *)
(***************************************************************************)
EXTENDS Integers, Sequences, FiniteSets, TLC

(***************************************************************************)
(* Bounds of the model.                                                    *)
(***************************************************************************)
NumBrokers == 3
NumPartitions == 2
MaxReplicas == 3

(***************************************************************************)
(* Brokers.                                                                *)
(***************************************************************************)
StubBrokerID == 0

BrokerIDs == {1000 + i : i \in 1..NumBrokers}

AllIDs == BrokerIDs \cup {StubBrokerID}

\* Localities alternate over the broker IDs: 1001 a, 1002 b, 1003 a, ...
LocalityOf(id) == IF id % 2 = 1 THEN "a" ELSE "b"

\* StorageFree of the test fixture: 1001 has 100, 1002 has 200, ...
FixtureStorageFree(id) == (id - 1000) * 100

StubBroker ==
  [ID |-> StubBrokerID, Locality |-> "", Used |-> 0, Replace |-> TRUE,
   StorageFree |-> 0]

\* The broker map of the fixture, with the brokers of `replaced` marked for
\* replacement and Used taken from `used`.
newMockBrokerMap(replaced, used) ==
  [id \in AllIDs |->
     IF id = StubBrokerID THEN StubBroker
     ELSE [ID |-> id, Locality |-> LocalityOf(id), Used |-> used[id],
           Replace |-> id \in replaced, StorageFree |-> FixtureStorageFree(id)]]

(***************************************************************************)
(* Sequence helpers.                                                       *)
(***************************************************************************)
Range(s) == {s[i] : i \in DOMAIN s}

IsInjective(s) == \A i, j \in DOMAIN s : i # j => s[i] # s[j]

\* s with its elements i and j exchanged.
Swap(s, i, j) == [s EXCEPT ![i] = s[j], ![j] = s[i]]

\* Every ordering of the elements of s.
RECURSIVE Orderings(_)
Orderings(s) ==
  IF Len(s) <= 1 THEN {s}
  ELSE UNION {{<<s[i]>> \o t :
                 t \in Orderings(SubSeq(s, 1, i - 1) \o SubSeq(s, i + 1, Len(s)))} :
              i \in DOMAIN s}

(***************************************************************************)
(* Partitions, partition maps and partition metadata                       *)
(* (src/unnamed/part_001: kafkazk's partition map).                        *)
(***************************************************************************)
\* The topics of the model, in ascending (string) order.
TopicNames == <<"test_topic">>

TopicRank(t) == CHOOSE i \in DOMAIN TopicNames : TopicNames[i] = t

NewPartition(topic, idx, replicas) ==
  [Topic |-> topic, Partition |-> idx, Replicas |-> replicas]

\* NewPartitionMap: the empty map has version 1.
NewPartitionMap == [isNil |-> FALSE, Version |-> 1, Partitions |-> <<>>]

\* A nil *PartitionMap.
NilPartitionMap == [isNil |-> TRUE, Version |-> 0, Partitions |-> <<>>]

\* partitionList.Less: topic ascending, then partition index ascending.
partitionListLess(p, q) ==
  IF TopicRank(p.Topic) < TopicRank(q.Topic) THEN TRUE
  ELSE IF TopicRank(p.Topic) > TopicRank(q.Topic) THEN FALSE
  ELSE p.Partition < q.Partition

\* A PartitionMetaMap is [known, size]: the (topic, partition) keys it holds
\* and the size in bytes of each.
MetaKey(p) == <<p.Topic, p.Partition>>

\* A Size that finds every partition.
SizeErrNever(pmm, p) == ""

\* PartitionMetaMap.Size: the error is "topic" when the topic is absent,
\* "partition" when the partition is absent, "" otherwise; the size is 0
\* with an error.
SizeErr(pmm, p) ==
  IF \A k \in pmm.known : k[1] # p.Topic THEN "topic"
  ELSE IF MetaKey(p) \notin pmm.known THEN "partition"
  ELSE ""

Size(pmm, p) == IF SizeErr(pmm, p) = "" THEN pmm.size[MetaKey(p)] ELSE 0

\* partitionsBySize.Less: size descending, then partition index ascending;
\* a partition of unknown size counts as size 0.
partitionsBySizeLess(pmm, p, q) ==
  IF Size(pmm, p) > Size(pmm, q) THEN TRUE
  ELSE IF Size(pmm, p) < Size(pmm, q) THEN FALSE
  ELSE p.Partition < q.Partition

\* Less under the order `by`: "size" or the canonical order.
Less(by, pmm, p, q) ==
  IF by = "size" THEN partitionsBySizeLess(pmm, p, q) ELSE partitionListLess(p, q)

\* sort.Sort of a partition list (the orders of the model are total on the
\* partitions of a map, so the sorted list is unique).
RECURSIVE SortInsert(_, _, _, _)
SortInsert(by, pmm, p, sorted) ==
  IF sorted = <<>> THEN <<p>>
  ELSE IF Less(by, pmm, p, Head(sorted)) THEN <<p>> \o sorted
  ELSE <<Head(sorted)>> \o SortInsert(by, pmm, p, Tail(sorted))

RECURSIVE SortPartitions(_, _, _)
SortPartitions(by, pmm, pl) ==
  IF pl = <<>> THEN <<>>
  ELSE SortInsert(by, pmm, Head(pl), SortPartitions(by, pmm, Tail(pl)))

(***************************************************************************)
(* Broker lists and constraints.  The code of these operations is not     *)
(* among the source files; they follow the design document (4.1, 4.2).    *)
(***************************************************************************)
\* BrokerMap.filteredList: the brokers that are neither the stub nor marked
\* for replacement.
filteredList(bm) == {id \in DOMAIN bm : id # StubBrokerID /\ ~bm[id].Replace}

\* BrokerMap.List: every broker of the map.
List(bm) == DOMAIN bm

\* mergeConstraints: the localities of the brokers of a replica set, stubs
\* skipped.  requestSize is set by the caller.
mergeConstraints(bm, replicaSet) ==
  [locality |-> {bm[id].Locality : id \in Range(replicaSet) \ {StubBrokerID}},
   requestSize |-> 0]

\* Whether broker b satisfies the constraints c.
passes(c, b) ==
  /\ b.Locality \notin c.locality
  /\ c.requestSize > 0 => b.StorageFree >= c.requestSize

\* brokersByStorage.Less: StorageFree descending, then ID ascending.
brokersByStorageLess(b1, b2) ==
  \/ b1.StorageFree > b2.StorageFree
  \/ b1.StorageFree = b2.StorageFree /\ b1.ID < b2.ID

\* brokerList.bestCandidate: the brokers of bl that can come first among
\* those that satisfy c.  By storage the list is sorted and the first is
\* unique.  By count the list is grouped by Used and each group is shuffled
\* by a PRNG whose stream the model does not compute: any satisfying broker
\* of the lowest Used can come first.  The empty set stands for the error
\* "no broker meets the constraints".
bestCandidate(bm, bl, c, strategy) ==
  LET ok == {id \in bl : passes(c, bm[id])}
  IN IF strategy = "storage"
     THEN {id \in ok : \A o \in ok \ {id} : brokersByStorageLess(bm[id], bm[o])}
     ELSE {id \in ok : \A o \in ok : bm[id].Used <= bm[o].Used}

\* The chosen broker's StorageFree is lowered by the size requested as soon
\* as it is chosen, so that later placements see it (4.4).
chargeCandidate(bm, id, c) ==
  [bm EXCEPT ![id].StorageFree = @ - c.requestSize]

(***************************************************************************)
(* Rebuild and its placement routines (src/unnamed/part_001).              *)
(***************************************************************************)
\* A soft error "{topic} p{idx}: {reason}".
SoftError(partn, reason) ==
  [Topic |-> partn.Topic, Partition |-> partn.Partition, Reason |-> reason]

\* "Invalid rebuild strategy '...'": the error names no partition.
InvalidStrategyError == [Topic |-> "", Partition |-> 0, Reason |-> "invalid strategy"]

\* Whether the broker at the current position of the old replica set stays.
KeepReplicaAlways(b) == TRUE

KeepReplica(b) == ~b.Replace

\* The IDs the constraints are built from: the old replica set, then the
\* replicas already in the new one.
ReplicaSetNewOnly(old, new) == new

ReplicaSetOldOnly(old, new) == old

ReplicaSetFor(old, new) == old \o new

\* The else branch of both placement routines: find a replacement for a slot
\* of partn, whose new replica set is newReplicas so far.  Each outcome is
\* [err, id, bm]: err is "" and id the broker chosen, or err is the reason
\* of the soft error.
FindReplacement(bm, bl, pmm, strategy, partn, newReplicas) ==
  LET merged == mergeConstraints(bm, ReplicaSetFor(partn.Replicas, newReplicas))
      sizeKnown == strategy # "storage" \/ SizeErr(pmm, partn) = ""
      c == IF strategy = "storage"
           THEN [merged EXCEPT !.requestSize = Size(pmm, partn)]
           ELSE merged
      found == bestCandidate(bm, bl, c, strategy)
  IN IF ~sizeKnown
     THEN {[err |-> SizeErr(pmm, partn), id |-> StubBrokerID, bm |-> bm]}
     ELSE IF found = {}
     THEN {[err |-> "no broker", id |-> StubBrokerID, bm |-> bm]}
     ELSE {[err |-> "", id |-> id, bm |-> chargeCandidate(bm, id, c)] : id \in found}

\* A placement in progress: reps[n] is the new replica set of the n-th
\* partition, errs the soft errors so far, bm the broker map, skipped the
\* counter of placeByPosition.
RECURSIVE emptyReplicaSets(_)
emptyReplicaSets(k) == IF k = 0 THEN <<>> ELSE Append(emptyReplicaSets(k - 1), <<>>)

PlaceStart(pl, bm) ==
  [reps |-> emptyReplicaSets(Len(pl)), errs |-> <<>>, bm |-> bm, skipped |-> 0]

\* The placement st after the outcome r of FindReplacement for partition n.
PlaceOutcome(st, n, partn, r) ==
  IF r.err # ""
  THEN [st EXCEPT !.errs = Append(@, SoftError(partn, r.err))]
  ELSE [st EXCEPT !.reps[n] = Append(@, r.id), !.bm = r.bm]

\* One pass of placeByPosition over the partitions n, n+1, ...: the inner
\* loop.  pass counts from 0.
RECURSIVE positionPass(_, _, _, _, _, _, _)
positionPass(pl, bl, pmm, strategy, pass, n, st) ==
  IF n > Len(pl) THEN {st}
  ELSE
    LET partn == pl[n]
    IN IF pass > Len(partn.Replicas) - 1
       THEN positionPass(pl, bl, pmm, strategy, pass, n + 1,
                         [st EXCEPT !.skipped = @ + 1])
       ELSE IF KeepReplica(st.bm[partn.Replicas[pass + 1]])
       THEN positionPass(pl, bl, pmm, strategy, pass, n + 1,
                         [st EXCEPT !.reps[n] = Append(@, partn.Replicas[pass + 1])])
       ELSE UNION {positionPass(pl, bl, pmm, strategy, pass, n + 1,
                                PlaceOutcome(st, n, partn, r)) :
                   r \in FindReplacement(st.bm, bl, pmm, strategy, partn, st.reps[n])}

\* The outer loop of placeByPosition: passes until skipped reaches the number
\* of partitions.  skipped is set to 0 once, before the first pass.
RECURSIVE positionPasses(_, _, _, _, _, _)
positionPasses(pl, bl, pmm, strategy, pass, st) ==
  IF st.skipped < Len(pl)
  THEN UNION {positionPasses(pl, bl, pmm, strategy, pass + 1, s2) :
              s2 \in positionPass(pl, bl, pmm, strategy, pass, 1, st)}
  ELSE {st}

\* The final check of both routines: a soft error for every new replica set
\* that is empty.
RECURSIVE zeroReplicaErrors(_, _, _)
zeroReplicaErrors(pl, reps, n) ==
  IF n > Len(pl) THEN <<>>
  ELSE (IF Len(reps[n]) = 0 THEN <<SoftError(pl[n], "zero replicas")>> ELSE <<>>)
       \o zeroReplicaErrors(pl, reps, n + 1)

\* What a placement routine returns: the new map, the errors and the broker
\* map as the routine leaves it.
RECURSIVE newPartitions(_, _, _)
newPartitions(pl, reps, n) ==
  IF n > Len(pl) THEN <<>>
  ELSE <<NewPartition(pl[n].Topic, pl[n].Partition, reps[n])>>
       \o newPartitions(pl, reps, n + 1)

PlaceResult(pl, st) ==
  [newMap |-> [NewPartitionMap EXCEPT !.Partitions = newPartitions(pl, st.reps, 1)],
   errs |-> st.errs \o zeroReplicaErrors(pl, st.reps, 1),
   bm |-> st.bm]

\* placeByPosition: every result the routine can return.
placeByPosition(pm, bm, pmm, strategy) ==
  {PlaceResult(pm.Partitions, st) :
     st \in positionPasses(pm.Partitions, filteredList(bm), pmm, strategy, 0,
                           PlaceStart(pm.Partitions, bm))}

\* The loop of placeByPartition over the old replica set of one partition,
\* from its i-th replica on.
RECURSIVE partitionReplicas(_, _, _, _, _, _, _)
partitionReplicas(pl, bl, pmm, strategy, n, i, st) ==
  IF i > Len(pl[n].Replicas) THEN {st}
  ELSE IF KeepReplica(st.bm[pl[n].Replicas[i]])
  THEN partitionReplicas(pl, bl, pmm, strategy, n, i + 1,
                         [st EXCEPT !.reps[n] = Append(@, pl[n].Replicas[i])])
  ELSE UNION {partitionReplicas(pl, bl, pmm, strategy, n, i + 1,
                                PlaceOutcome(st, n, pl[n], r)) :
              r \in FindReplacement(st.bm, bl, pmm, strategy, pl[n], st.reps[n])}

\* The loop of placeByPartition over the partitions n, n+1, ...
RECURSIVE partitionLoop(_, _, _, _, _, _)
partitionLoop(pl, bl, pmm, strategy, n, st) ==
  IF n > Len(pl) THEN {st}
  ELSE UNION {partitionLoop(pl, bl, pmm, strategy, n + 1, s2) :
              s2 \in partitionReplicas(pl, bl, pmm, strategy, n, 1, st)}

\* placeByPartition: every result the routine can return.
placeByPartition(pm, bm, pmm, strategy) ==
  {PlaceResult(pm.Partitions, st) :
     st \in partitionLoop(pm.Partitions, filteredList(bm), pmm, strategy, 1,
                          PlaceStart(pm.Partitions, bm))}

\* PartitionMap.shuffle: the replicas of every partition are reordered by
\* rand.Shuffle under a seed taken from the partition's position.  The model
\* does not compute the PRNG stream: every ordering is an outcome.
RECURSIVE shuffle(_)
shuffle(pl) ==
  IF pl = <<>> THEN {<<>>}
  ELSE LET rests == shuffle(Tail(pl))
       IN {<<[Head(pl) EXCEPT !.Replicas = o]>> \o rest :
             o \in Orderings(Head(pl).Replicas), rest \in rests}

\* The sort of the input map at the head of each case of Rebuild's switch;
\* the default case sorts nothing.
SortInputAnyStrategy(pl, pmm, strategy) ==
  IF strategy = "count" THEN SortPartitions("canonical", pmm, pl)
  ELSE SortPartitions("size", pmm, pl)

SortInput(pl, pmm, strategy) ==
  IF strategy = "count" THEN SortPartitions("canonical", pmm, pl)
  ELSE IF strategy = "storage" THEN SortPartitions("size", pmm, pl)
  ELSE pl

\* The final sort of Rebuild.
FinalSort(m) == [m EXCEPT !.Partitions = SortPartitions("canonical", <<>>, @)]

\* PartitionMap.Rebuild: every outcome <<ret, left>> of a call, grouped by
\* the result of the placement routine; a group holds one outcome for every
\* result of the shuffle.  ret is what the call returns, the new map and the
\* errors; left is the input map and the broker map as the call leaves them.
Rebuild(pmIn, bmIn, pmmIn, strat) ==
  LET sorted == [pmIn EXCEPT !.Partitions = SortInput(@, pmmIn, strat)]
  IN IF strat = "count"
     THEN {{<<[newMap |-> FinalSort(r.newMap), errs |-> r.errs],
              [pm |-> sorted, bm |-> r.bm]>>} :
             r \in placeByPosition(sorted, bmIn, pmmIn, strat)}
     ELSE IF strat = "storage"
     THEN {{<<[newMap |-> FinalSort([r.newMap EXCEPT !.Partitions = sh]),
               errs |-> r.errs],
              [pm |-> sorted, bm |-> r.bm]>> :
              sh \in shuffle(r.newMap.Partitions)} :
             r \in placeByPartition(sorted, bmIn, pmmIn, strat)}
     ELSE {{<<[newMap |-> NilPartitionMap, errs |-> <<InvalidStrategyError>>],
              [pm |-> sorted, bm |-> bmIn]>>}}

(***************************************************************************)
(* The inputs of the model.                                                *)
(***************************************************************************)
\* The replica set of length len that starts at the broker of partition idx
\* and goes round the brokers, as a round-robin assignment gives it.
RoundRobin(idx, len) == [k \in 1..len |-> 1001 + ((idx + k - 1) % NumBrokers)]

Min(a, b) == IF a < b THEN a ELSE b

PartitionIdx == 0..(NumPartitions - 1)

\* The partition maps as a metadata scan gives them: canonical order, every
\* partition with a round-robin replica set of 0 to MaxReplicas brokers (a
\* replica set is empty when an earlier Rebuild could fill none of its slots).
ScannedMaps ==
  {[NewPartitionMap EXCEPT
      !.Partitions = [n \in 1..NumPartitions |->
                        NewPartition(TopicNames[1], n - 1, RoundRobin(n - 1, len[n - 1]))]] :
     len \in [PartitionIdx -> 0..Min(MaxReplicas, NumBrokers)]}

\* PartitionMap.Strip: a copy with every replica replaced by the stub.
Strip(pmap) ==
  [NewPartitionMap EXCEPT
     !.Partitions = [n \in DOMAIN pmap.Partitions |->
                       NewPartition(pmap.Partitions[n].Topic, pmap.Partitions[n].Partition,
                                    [k \in DOMAIN pmap.Partitions[n].Replicas |-> StubBrokerID])]]

\* The partition maps of the model: scanned, or scanned and stripped.
PartitionMaps == ScannedMaps \cup {Strip(m) : m \in ScannedMaps}

\* Sizes of the test fixture: partition 0 has 30, 1 has 35, 2 has 60, 3 has 45.
FixtureSizes == <<30, 35, 60, 45>>

FixtureSize(idx) == FixtureSizes[(idx % Len(FixtureSizes)) + 1]

AllKeys == {<<TopicNames[1], i>> : i \in PartitionIdx}

\* The partition metadata of a Rebuild: the sizes of the fixture, five times
\* those sizes without an entry for partition 0, and the empty map.
MetaMap(known, scale) ==
  [known |-> known, size |-> [k \in AllKeys |-> FixtureSize(k[2]) * scale]]

PartitionMetaMaps ==
  {MetaMap(AllKeys, 1), MetaMap(AllKeys \ {<<TopicNames[1], 0>>}, 5), MetaMap({}, 1)}

\* Used of a broker: the replica slots of the map that name it.
UsedIn(pmap, id) ==
  Cardinality({<<n, i>> \in (DOMAIN pmap.Partitions) \X (1..MaxReplicas) :
                 /\ i <= Len(pmap.Partitions[n].Replicas)
                 /\ pmap.Partitions[n].Replicas[i] = id})

Strategies == {"count", "storage", "random"}

\* The inputs of a rebalance: maps whose replica sets are full or one short,
\* brokers with one of two amounts of free storage, the last broker new or
\* not, and metadata with the sizes of the fixture.
StorageFrees == {100, 300}

RebalanceMaps ==
  {m \in ScannedMaps :
     \A n \in DOMAIN m.Partitions :
       Len(m.Partitions[n].Replicas) >= Min(MaxReplicas, NumBrokers) - 1}

RebalanceMetaMaps ==
  {MetaMap(known, 1) : known \in {AllKeys, AllKeys \ {<<TopicNames[1], 0>>}, {}}}

\* The broker map of a rebalance: built from the partition map, so it holds
\* the stub; no broker but the stub is marked for replacement.
rebalanceBrokerMap(free, news, used) ==
  [id \in AllIDs |->
     IF id = StubBrokerID
     THEN [ID |-> StubBrokerID, Locality |-> "", Used |-> 0, Replace |-> TRUE,
           StorageFree |-> 0, New |-> FALSE]
     ELSE [ID |-> id, Locality |-> LocalityOf(id), Used |-> used[id],
           Replace |-> FALSE, StorageFree |-> free[id], New |-> id \in news]]

Tolerances == {10, 20}

Flags ==
  [tolerance : Tolerances, localityScoped : BOOLEAN, topPartitionsLimit : 1..2]

\* The inputs of the rebalances that are followed for the free storage of
\* the brokers: tolerances at both ends of [0, 1] and between, and partitions
\* of the fixture's sizes or five times those, larger than the free storage of
\* a broker.
StorageTolerances == {0, 20, 100}

StorageFlags ==
  [tolerance : StorageTolerances, localityScoped : BOOLEAN, topPartitionsLimit : 1..2]

StorageMetaMaps == {MetaMap(AllKeys, 1), MetaMap(AllKeys, 5)}

(***************************************************************************)
(* The relocation planner of topicmappr's rebalance command                *)
(* (src/cmd/topicmappr/commands/rebalance_steps.go).  The tolerance is a   *)
(* whole number of percent, and a mean is kept as the pair [sum, n] so     *)
(* that the comparisons with mean*(1 +/- tolerance) are exact.             *)
(***************************************************************************)
\* The planning passes the model follows at most: one more than the replica
\* slots of the map, each of which is one entry of the mappings.
MaxPasses == NumPartitions * MaxReplicas + 1

\* relocationPlan: the (topic, partition) keys that have an entry, and the
\* [2]int pair {source, destination} of each.
NoPair == <<0, 0>>

EmptyPlan == [planned |-> {}, ids |-> [k \in AllKeys |-> NoPair]]

\* relocationPlan.add.
add(r, p, ids) ==
  [planned |-> r.planned \cup {MetaKey(p)}, ids |-> [r.ids EXCEPT ![MetaKey(p)] = ids]]

\* relocationPlan.isPlanned: <<planned, pair>>.
isPlanned(r, p) ==
  IF MetaKey(p) \notin r.planned THEN <<FALSE, NoPair>>
  ELSE <<TRUE, r.ids[MetaKey(p)]>>

\* Mappings: broker ID -> the partitions of the map that hold a replica on
\* the broker (3).
Mappings(pmap) ==
  [id \in BrokerIDs |-> SelectSeq(pmap.Partitions, LAMBDA p : id \in Range(p.Replicas))]

\* A Remove that leaves the mappings as they are.
RemoveNothing(m, id, p) == m

\* Mappings.Remove: drops the partition from the broker's list.
Remove(m, id, p) ==
  [m EXCEPT ![id] = SelectSeq(@, LAMBDA q : MetaKey(q) # MetaKey(p))]

\* Mappings.LargestPartitions: up to k partitions of the broker, the largest
\* first.
LargestPartitions(m, id, k, pmm) ==
  LET bySize == SortPartitions("size", pmm, m[id])
  IN SubSeq(bySize, 1, Min(k, Len(bySize)))

\* BrokerMap.Mean: the arithmetic mean of StorageFree over the filtered
\* list (4.1), as [sum, n].
RECURSIVE SumStorageFree(_, _)
SumStorageFree(bm, ids) ==
  IF ids = {} THEN 0
  ELSE LET id == CHOOSE x \in ids : TRUE
       IN bm[id].StorageFree + SumStorageFree(bm, ids \ {id})

Mean(bm) ==
  [sum |-> SumStorageFree(bm, filteredList(bm)), n |-> Cardinality(filteredList(bm))]

\* validateBrokersForRebalance with a storage threshold of 0: the IDs, in
\* ascending order, of the brokers that are not new and not the stub.
RECURSIVE SortInts(_)
SortInts(ids) ==
  IF ids = {} THEN <<>>
  ELSE LET lo == CHOOSE x \in ids : \A y \in ids : x <= y
       IN <<lo>> \o SortInts(ids \ {lo})

validateBrokersForRebalance(brokers) ==
  SortInts({id \in DOMAIN brokers : ~brokers[id].New /\ id # StubBrokerID})

\* sourceFree > sLim, sLim being meanStorageFree * (1 + tolerance).
AboveSourceLimit(sourceFree, mean, tolerance) ==
  sourceFree * mean.n * 100 > mean.sum * (100 + tolerance)

\* destFree < dLim, dLim being meanStorageFree * (1 - tolerance).
BelowDestLimitNever(destFree, mean, tolerance) == FALSE

BelowDestLimit(destFree, mean, tolerance) ==
  destFree * mean.n * 100 < mean.sum * (100 - tolerance)

\* The destination of a partition of the source broker: the set is empty
\* when dest is nil.  brokerList is brokers.List() sorted by storage.
selectDestination(brokers, sourceID, p, localityScoped) ==
  IF localityScoped
  THEN LET same == {id \in List(brokers) :
                      /\ brokers[id].Locality = brokers[sourceID].Locality
                      /\ id # sourceID}
       IN {id \in same :
             \A o \in same \ {id} : brokersByStorageLess(brokers[id], brokers[o])}
  ELSE LET replicaSet == SelectSeq(p.Replicas, LAMBDA id : id # sourceID)
       IN bestCandidate(brokers, List(brokers), mergeConstraints(brokers, replicaSet),
                        "storage")

\* Whether the loop over topPartn goes on: it ends at the return for a nil
\* dest and at the break after a placement.
KeepPlanningAfterBreak(st) == st.exit # "return"

KeepPlanning(st) == st.exit = ""

\* One iteration of the loop over topPartn, for the partition p.  st holds
\* the maps the call changes, reloCount, how the loop was left, and the
\* moves the call committed.
planPartition(st, params, p) ==
  LET sourceID == params.sourceID
      pSize == Size(params.partitionMeta, p)
      found == selectDestination(st.brokers, sourceID, p, params.localityScoped)
  IN IF found = {} THEN [st EXCEPT !.exit = "return"]
     ELSE
       LET dest == CHOOSE id \in found : TRUE
           sourceFree == st.brokers[sourceID].StorageFree + pSize
           destFree == st.brokers[dest].StorageFree - pSize
       IN IF AboveSourceLimit(sourceFree, params.mean, params.tolerance) THEN st
          ELSE IF BelowDestLimit(destFree, params.mean, params.tolerance) THEN st
          ELSE [st EXCEPT
                  !.relos[sourceID] = Append(@, [partition |-> p, destination |-> dest]),
                  !.reloCount = @ + 1,
                  !.plan = add(@, p, <<sourceID, dest>>),
                  !.brokers = [[@ EXCEPT ![sourceID].StorageFree = sourceFree]
                                 EXCEPT ![dest].StorageFree = destFree],
                  !.mappings = Remove(@, sourceID, p),
                  !.moves = Append(@, [partition |-> p, source |-> sourceID,
                                       destination |-> dest]),
                  !.exit = "break"]

RECURSIVE planLoop(_, _, _, _)
planLoop(st, params, topPartn, i) ==
  IF i > Len(topPartn) \/ ~KeepPlanning(st) THEN st
  ELSE planLoop(planPartition(st, params, topPartn[i]), params, topPartn, i + 1)

\* planRelocationsForBroker: the maps as the call leaves them, and reloCount,
\* the number it returns.
planRelocationsForBroker(params) ==
  LET topPartn == LargestPartitions(params.mappings, params.sourceID,
                                    params.topPartitionsLimit, params.partitionMeta)
      withMean == [sourceID |-> params.sourceID, partitionMeta |-> params.partitionMeta,
                   tolerance |-> params.tolerance,
                   localityScoped |-> params.localityScoped,
                   mean |-> Mean(params.brokers)]
  IN planLoop([brokers |-> params.brokers, plan |-> params.plan, relos |-> params.relos,
               mappings |-> params.mappings, reloCount |-> 0, exit |-> "",
               moves |-> <<>>],
              withMean, topPartn, 1)

\* The replica list of a partition with a planned pair: every replica that
\* is the source becomes the destination.
ReplaceLeader(replicas, pair) == [replicas EXCEPT ![1] = pair[2]]

ReplaceSource(replicas, pair) ==
  [i \in DOMAIN replicas |-> IF replicas[i] = pair[1] THEN pair[2] ELSE replicas[i]]

\* applyRelocationPlan, leader optimization off.
applyRelocationPlan(pmap, plan) ==
  LET applied(partn) ==
        IF isPlanned(plan, partn)[1]
        THEN [partn EXCEPT !.Replicas = ReplaceSource(@, isPlanned(plan, partn)[2])]
        ELSE partn
  IN [pmap EXCEPT
        !.Partitions = [n \in DOMAIN pmap.Partitions |-> applied(pmap.Partitions[n])]]

(***************************************************************************)
(* State.                                                                  *)
(***************************************************************************)
(***************************************************************************)
(* Methods of PartitionMap: SetReplication, Copy, equal.                   *)
(***************************************************************************)

\* A SetReplication that truncates but never extends.
SetReplicationTruncateOnly(pmap, r) ==
  [pmap EXCEPT
     !.Partitions = [n \in DOMAIN pmap.Partitions |->
                       [pmap.Partitions[n] EXCEPT
                          !.Replicas = SubSeq(@, 1, Min(Len(@), r))]]]

\* PartitionMap.SetReplication(r): 0 is a no-op; a longer replica set is cut
\* to its first r entries, a shorter one is extended by make([]int, r-l), that
\* is by zeroes.
SetReplication(pmap, r) ==
  IF r = 0 THEN pmap
  ELSE [pmap EXCEPT
          !.Partitions = [n \in DOMAIN pmap.Partitions |->
                            LET p == pmap.Partitions[n]
                                l == Len(p.Replicas)
                            IN IF l > r
                               THEN [p EXCEPT !.Replicas = SubSeq(@, 1, r)]
                               ELSE IF l < r
                               THEN [p EXCEPT !.Replicas = @ \o [k \in 1..(r - l) |-> 0]]
                               ELSE p]]

\* PartitionMap.Copy(): a NewPartitionMap() to which a copy of every partition
\* is appended in order.
Copy(pmap) ==
  [NewPartitionMap EXCEPT
     !.Partitions = [n \in DOMAIN pmap.Partitions |->
                       NewPartition(pmap.Partitions[n].Topic,
                                    pmap.Partitions[n].Partition,
                                    [k \in DOMAIN pmap.Partitions[n].Replicas |->
                                       pmap.Partitions[n].Replicas[k]])]]

\* The iterative comparison of equal, from position i on.
RECURSIVE equalFrom(_, _, _)
equalFrom(pl1, pl2, i) ==
  IF i > Len(pl1) THEN <<TRUE, "">>
  ELSE LET p1 == pl1[i]
           p2 == pl2[i]
       IN IF p1.Topic # p2.Topic THEN <<FALSE, "topic order">>
          ELSE IF p1.Partition # p2.Partition THEN <<FALSE, "partition order">>
          ELSE IF Len(p1.Replicas) # Len(p2.Replicas) THEN <<FALSE, "replica list">>
          ELSE IF \E n \in DOMAIN p1.Replicas : p1.Replicas[n] # p2.Replicas[n]
          THEN <<FALSE, "replica">>
          ELSE equalFrom(pl1, pl2, i + 1)

\* An equal that does not look at the version.
equalAnyVersion(pm1, pm2) ==
  IF Len(pm1.Partitions) # Len(pm2.Partitions)
  THEN <<FALSE, "partitions len">>
  ELSE equalFrom(pm1.Partitions, pm2.Partitions, 1)

\* PartitionMap.equal(pm2): the pair of the verdict and the mismatch reason.
equal(pm1, pm2) ==
  IF Len(pm1.Partitions) # Len(pm2.Partitions)
  THEN <<FALSE, "partitions len">>
  ELSE IF pm1.Version # pm2.Version
  THEN <<FALSE, "version">>
  ELSE equalFrom(pm1.Partitions, pm2.Partitions, 1)

\* The versions a map read by PartitionMapFromString can carry: the JSON
\* decides the field, NewPartitionMap only presets it.
MapVersions == {1, 2}

VersionedMaps == {[m EXCEPT !.Version = v] : m \in PartitionMaps, v \in MapVersions}

\* The replication factors asked of SetReplication.
ReplicationFactors == 0..(MaxReplicas + 1)

\* Maps that differ from a map in one respect: the version, the number of
\* partitions, the order of the partitions, a topic, or one replica set
\* (shorter, or with another broker in one slot).
Variants(a) ==
  LET pl == a.Partitions
      N == Len(pl)
  IN {[a EXCEPT !.Version = v] : v \in MapVersions}
     \cup {[a EXCEPT !.Partitions = SubSeq(pl, 1, N - 1)] : x \in {1} \cap (1..N)}
     \cup {[a EXCEPT !.Partitions = Swap(pl, 1, N)] : x \in {2} \cap (1..N)}
     \cup {[a EXCEPT !.Partitions[n].Topic = "other_topic"] : n \in 1..N}
     \cup {[a EXCEPT !.Partitions[n].Replicas = SubSeq(@, 1, Len(@) - 1)] :
             n \in {m \in 1..N : Len(pl[m].Replicas) > 0}}
     \cup {[a EXCEPT !.Partitions[nk[1]].Replicas[nk[2]] = 1001 + ((@ + 1) % NumBrokers)] :
             nk \in {mk \in (1..N) \X (1..MaxReplicas) : mk[2] <= Len(pl[mk[1]].Replicas)}}

(***************************************************************************)
(* The broker map of the tests (src/kafkazk/brokers_test.go) and the       *)
(* methods of BrokerMap the tests call.  The code of SubStorageAll and     *)
(* Update is not among the source files: SubStorageAll follows the design  *)
(* document (4.1) with the values TestSubStorageAll expects, Update the    *)
(* design document (4.1) with the flags and counts TestUpdate expects.     *)
(***************************************************************************)
FixtureIDs == {1001, 1002, 1003, 1004}

\* Localities of newMockBrokerMap (1001..1004) and newMockBrokerMap2.
FixtureLocality(id) ==
  CASE id = 1001 -> "a"
    [] id = 1002 -> "b"
    [] id = 1003 -> "c"
    [] id = 1004 -> "a"
    [] id = 1005 -> "b"
    [] OTHER -> "c"

\* newMockBrokerMap, with the brokers of `replaced` marked for replacement
\* (as TestFilteredList marks 1003) and Used taken from `used`.  A broker
\* also carries the flags Update sets.
FixtureBrokerMap(replaced, used) ==
  [id \in FixtureIDs \cup {StubBrokerID} |->
     IF id = StubBrokerID
     THEN [ID |-> StubBrokerID, Locality |-> "", Used |-> 0, Replace |-> TRUE,
           StorageFree |-> 0, New |-> FALSE, Missing |-> FALSE]
     ELSE [ID |-> id, Locality |-> FixtureLocality(id), Used |-> used[id],
           Replace |-> id \in replaced, StorageFree |-> FixtureStorageFree(id),
           New |-> FALSE, Missing |-> FALSE]]

\* A partition map of one topic with the given replica sets, partition 0 first.
MapOf(replicaSets) ==
  [NewPartitionMap EXCEPT
     !.Partitions = [n \in DOMAIN replicaSets |->
                       NewPartition(TopicNames[1], n - 1, replicaSets[n])]]

\* The map TestSubStorageAll reads: the one map of four partitions for which
\* the sizes 30, 35, 60, 45 give the storage the test expects, and from
\* which BrokerMapFromPartitionMap gives the Used of newMockBrokerMap.
TestTopicMap ==
  MapOf(<< <<1001, 1002>>, <<1002, 1001>>, <<1003, 1004, 1001>>, <<1004, 1003, 1002>> >>)

\* The map of the scenario "replace one broker, count strategy".
ScenarioMap == MapOf(<< <<1001, 1002, 1003>>, <<1002, 1003, 1004>> >>)

\* The maps of the fixture; the last holds no replica on 1004.
FixtureMaps == {TestTopicMap, ScenarioMap, SetReplication(ScenarioMap, 2)}

FixtureKeys == {<<TopicNames[1], i>> : i \in 0..(Len(FixtureSizes) - 1)}

\* The partition metadata of TestSubStorageAll, and the empty metadata.
FixtureMetaMaps ==
  {[known |-> known, size |-> [k \in FixtureKeys |-> FixtureSize(k[2])]] :
     known \in {FixtureKeys, {}}}

\* A SubStorageAll that takes the size away.
SubStorageSubtracting(bmap, id, size) ==
  [bmap EXCEPT ![id].StorageFree = @ - size]

\* BrokerMap.SubStorageAll for one replica: TestSubStorageAll expects 225
\* on broker 1001, which starts at 100 and holds partitions 0, 1 and 2 of
\* sizes 30, 35 and 60.
SubStorage(bmap, id, size) ==
  [bmap EXCEPT ![id].StorageFree = @ + size]

RECURSIVE SubStorageReplicas(_, _, _)
SubStorageReplicas(bmap, replicas, size) ==
  IF replicas = <<>> THEN bmap
  ELSE SubStorageReplicas(SubStorage(bmap, replicas[1], size), Tail(replicas), size)

\* BrokerMap.SubStorageAll(pm, pmm) over the partition list pl: for every
\* partition, the size is accounted to every replica.
RECURSIVE SubStorageAll(_, _, _)
SubStorageAll(bmap, pl, pmm) ==
  IF pl = <<>> THEN bmap
  ELSE SubStorageAll(SubStorageReplicas(bmap, pl[1].Replicas, Size(pmm, pl[1])),
                     Tail(pl), pmm)

\* The IDs given to Update, as reference list or as keys of the metadata:
\* those of TestUpdate.
UpdateIDs == {1002, 1003, 1004, 1005, 1006}

\* A broker added by Update.
NewBroker(id) ==
  [ID |-> id, Locality |-> FixtureLocality(id), Used |-> 0, Replace |-> FALSE,
   StorageFree |-> 0, New |-> TRUE, Missing |-> FALSE]

\* An Update that never flags a broker for being left out of the list.
NoOutsiders(bmap, ref) == {}

\* The brokers of the map that the reference list leaves out.
Outsiders(bmap, ref) == {id \in DOMAIN bmap \ {StubBrokerID} : id \notin ref}

\* BrokerMap.Update(ref, fresh) as <<BrokerStatus, BrokerMap>>.  A broker of
\* the map without metadata is Missing and Replace, counted Missing when
\* listed and OldMissing otherwise; one left out of the list is Replace and
\* counted so; one listed and with metadata drops Missing and New and keeps
\* Replace; a listed ID with metadata that is not in the map is added New; a
\* listed ID with neither is counted Missing.  The design document adds
\* every ID of the metadata that is not in the map, TestUpdate shows it only
\* for a listed one: `unlisted` says whether the others are added too.
UpdateWith(bmap, ref, fresh, unlisted) ==
  LET inMap == DOMAIN bmap \ {StubBrokerID}
      gone == {id \in inMap : id \notin fresh}
      out == Outsiders(bmap, ref)
      added == {id \in fresh \ DOMAIN bmap : id \in ref \/ unlisted}
      absent == {id \in ref \ DOMAIN bmap : id \notin fresh}
  IN << [New |-> Cardinality(added),
         Missing |-> Cardinality(gone \cap ref) + Cardinality(absent),
         OldMissing |-> Cardinality(gone \ ref),
         Replace |-> Cardinality(out)],
        [id \in DOMAIN bmap \cup added |->
           IF id \in added THEN NewBroker(id)
           ELSE IF id = StubBrokerID THEN bmap[id]
           ELSE [bmap[id] EXCEPT !.Missing = id \in gone,
                                 !.New = FALSE,
                                 !.Replace = @ \/ id \in gone \/ id \in out]] >>

Update(bmap, ref, fresh) == {UpdateWith(bmap, ref, fresh, u) : u \in BOOLEAN}

VARIABLES
  pm,             \* the partition map
  bm,             \* the broker map
  pmm,            \* the partition metadata
  newMap,         \* the map the last Rebuild returned
  errs,           \* the errors the last Rebuild returned
  strategy,       \* the strategy of the last Rebuild, "" before the first
  pre,            \* pm and bm as they were when the last Rebuild was called
  flags,          \* the flags of the rebalance command
  mappings,       \* broker ID -> partitions, as the planner leaves it
  plan,           \* the relocationPlan
  relos,          \* broker ID -> the relocations planned from the broker
  offloadTargets, \* the brokers to plan relocations from, in order
  driver,         \* where the passes over offloadTargets stand
  last,           \* the last call of planRelocationsForBroker
  op              \* the last call of a partition map or broker map method

rebuildVars == <<newMap, errs, strategy, pre>>

rebalanceVars == <<flags, mappings, plan, relos, offloadTargets, driver, last>>

vars == <<pm, bm, pmm, newMap, errs, strategy, pre,
          flags, mappings, plan, relos, offloadTargets, driver, last, op>>

NoRelos == [id \in BrokerIDs |-> <<>>]

NoCall ==
  [called |-> FALSE, sourceID |-> StubBrokerID, r |-> 0, moves |-> <<>>,
   before |-> [brokers |-> <<>>, plan |-> EmptyPlan, relos |-> NoRelos,
               mappings |-> NoRelos, pm |-> NilPartitionMap]]

NoOp == [name |-> ""]

Driver(phase) ==
  [phase |-> phase, pass |-> 1, cursor |-> 1, planned |-> 0, commits |-> <<>>]

\* A Rebuild of a map: no rebalance is under way.
Init ==
  /\ pm \in PartitionMaps
  /\ \E replaced \in SUBSET BrokerIDs :
       bm = newMockBrokerMap(replaced, [id \in BrokerIDs |-> UsedIn(pm, id)])
  /\ pmm \in PartitionMetaMaps
  /\ newMap = NilPartitionMap
  /\ errs = <<>>
  /\ strategy = ""
  /\ pre = [pm |-> pm, bm |-> bm]
  /\ flags = [tolerance |-> 10, localityScoped |-> FALSE, topPartitionsLimit |-> 1]
  /\ mappings = NoRelos
  /\ plan = EmptyPlan
  /\ relos = NoRelos
  /\ offloadTargets = <<>>
  /\ driver = Driver("idle")
  /\ last = NoCall
  /\ op = NoOp

\* A call of pm.Rebuild(bm, pmm, strat).
RebuildCall(strat) ==
  /\ strategy = ""
  /\ \E placed \in Rebuild(pm, bm, pmm, strat) : \E r \in placed :
       /\ newMap' = r[1].newMap
       /\ errs' = r[1].errs
       /\ pm' = r[2].pm
       /\ bm' = r[2].bm
  /\ strategy' = strat
  /\ pre' = [pm |-> pm, bm |-> bm]
  /\ UNCHANGED pmm
  /\ UNCHANGED rebalanceVars
  /\ UNCHANGED op

Next == \E strat \in Strategies : RebuildCall(strat)

Spec == Init /\ [][Next]_vars

\* A rebalance: the planner is about to make its first call.
InitRebalance ==
  /\ pm \in RebalanceMaps
  /\ \E free \in [BrokerIDs -> StorageFrees], news \in {{}, {1000 + NumBrokers}} :
       bm = rebalanceBrokerMap(free, news, [id \in BrokerIDs |-> UsedIn(pm, id)])
  /\ pmm \in RebalanceMetaMaps
  /\ newMap = NilPartitionMap
  /\ errs = <<>>
  /\ strategy = ""
  /\ pre = [pm |-> pm, bm |-> bm]
  /\ flags \in Flags
  /\ mappings = Mappings(pm)
  /\ plan = EmptyPlan
  /\ relos = NoRelos
  /\ offloadTargets = validateBrokersForRebalance(bm)
  /\ driver = Driver("planning")
  /\ last = NoCall
  /\ op = NoOp

\* The next call of planRelocationsForBroker of the passes over
\* offloadTargets.  The passes end after one that planned no relocation, and
\* the model follows at most MaxPasses of them.
PlanRelocations ==
  /\ driver.phase = "planning"
  /\ LET sourceID == offloadTargets[driver.cursor]
         st == planRelocationsForBroker(
                 [sourceID |-> sourceID, relos |-> relos, mappings |-> mappings,
                  brokers |-> bm, partitionMeta |-> pmm, plan |-> plan,
                  tolerance |-> flags.tolerance,
                  localityScoped |-> flags.localityScoped,
                  topPartitionsLimit |-> flags.topPartitionsLimit])
         planned == (IF driver.cursor = 1 THEN 0 ELSE driver.planned) + st.reloCount
         commits == (IF driver.cursor = 1 THEN <<>> ELSE driver.commits) \o st.moves
     IN /\ bm' = st.brokers
        /\ plan' = st.plan
        /\ relos' = st.relos
        /\ mappings' = st.mappings
        /\ last' = [called |-> TRUE, sourceID |-> sourceID, r |-> st.reloCount,
                    moves |-> st.moves,
                    before |-> [brokers |-> bm, plan |-> plan, relos |-> relos,
                                mappings |-> mappings, pm |-> pm]]
        /\ driver' =
             IF driver.cursor < Len(offloadTargets)
             THEN [driver EXCEPT !.cursor = @ + 1, !.planned = planned,
                                 !.commits = commits]
             ELSE IF planned = 0 \/ driver.pass >= MaxPasses
             THEN [driver EXCEPT !.phase = "planned", !.planned = planned,
                                 !.commits = commits]
             ELSE [driver EXCEPT !.pass = @ + 1, !.cursor = 1, !.planned = planned,
                                 !.commits = commits]
  /\ UNCHANGED <<pm, pmm, flags, offloadTargets>>
  /\ UNCHANGED rebuildVars
  /\ UNCHANGED op

\* applyRelocationPlan(cmd, pm, plan), once the passes have ended.
ApplyRelocationPlan ==
  /\ driver.phase = "planned"
  /\ pm' = applyRelocationPlan(pm, plan)
  /\ driver' = [driver EXCEPT !.phase = "applied"]
  /\ last' = [last EXCEPT !.before.pm = pm]
  /\ UNCHANGED <<bm, pmm, flags, mappings, plan, relos, offloadTargets>>
  /\ UNCHANGED rebuildVars
  /\ UNCHANGED op

NextRebalance == PlanRelocations \/ ApplyRelocationPlan

SpecRebalance == InitRebalance /\ [][NextRebalance]_vars

\* The rebalance as the command runs it: the passes and the application of
\* the plan are the steps of one sequential loop, which is never suspended.
\* Both steps are weakly fair.  For PlanRelocations the condition is written
\* out, a call being possible exactly while the phase is "planning":
\* WF_vars(PlanRelocations) is []<>~ENABLED <<PlanRelocations>>_vars or
\* []<><<PlanRelocations>>_vars.
SpecRebalanceFair ==
  /\ SpecRebalance
  /\ []<>(driver.phase # "planning") \/ []<><<PlanRelocations>>_vars
  /\ WF_vars(ApplyRelocationPlan)

(***************************************************************************)
(* The methods of a partition map, one call on a map read from JSON.       *)
(***************************************************************************)

InitMaps ==
  /\ pm \in VersionedMaps
  /\ bm = newMockBrokerMap({}, [id \in BrokerIDs |-> UsedIn(pm, id)])
  /\ pmm = MetaMap(AllKeys, 1)
  /\ newMap = NilPartitionMap
  /\ errs = <<>>
  /\ strategy = ""
  /\ pre = [pm |-> pm, bm |-> bm]
  /\ flags = [tolerance |-> 10, localityScoped |-> FALSE, topPartitionsLimit |-> 1]
  /\ mappings = NoRelos
  /\ plan = EmptyPlan
  /\ relos = NoRelos
  /\ offloadTargets = <<>>
  /\ driver = Driver("idle")
  /\ last = NoCall
  /\ op = NoOp

\* pm.SetReplication(r): pm is changed in place.
SetReplicationCall(r) ==
  /\ op = NoOp
  /\ pm' = SetReplication(pm, r)
  /\ pre' = [pm |-> pm, bm |-> bm]
  /\ op' = [name |-> "SetReplication", r |-> r]
  /\ UNCHANGED <<bm, pmm, newMap, errs, strategy>>
  /\ UNCHANGED rebalanceVars

\* newMap := pm.Copy().
CopyCall ==
  /\ op = NoOp
  /\ newMap' = Copy(pm)
  /\ op' = [name |-> "Copy"]
  /\ UNCHANGED <<pm, bm, pmm, errs, strategy, pre>>
  /\ UNCHANGED rebalanceVars

\* pm.equal(other).
EqualCall(other) ==
  /\ op = NoOp
  /\ LET e == equal(pm, other)
     IN op' = [name |-> "Equal", other |-> other, ok |-> e[1], reason |-> e[2]]
  /\ UNCHANGED <<pm, bm, pmm, newMap, errs, strategy, pre>>
  /\ UNCHANGED rebalanceVars

\* A map is compared with the maps that differ from it in up to two respects.
NextMaps ==
  \/ \E r \in ReplicationFactors : SetReplicationCall(r)
  \/ CopyCall
  \/ \E once \in Variants(pm) : \E other \in Variants(once) : EqualCall(other)

SpecMaps == InitMaps /\ [][NextMaps]_vars

(***************************************************************************)
(* Everything that moves the free storage of a broker: a Rebuild by        *)
(* storage, and the committed relocations of a rebalance.                  *)
(***************************************************************************)

\* Either a Rebuild is about to be called, or a rebalance is about to plan.
InitStorage ==
  \/ Init
  \/ /\ pm \in RebalanceMaps
     /\ \E free \in [BrokerIDs -> StorageFrees], news \in {{}, {1000 + NumBrokers}} :
          bm = rebalanceBrokerMap(free, news, [id \in BrokerIDs |-> UsedIn(pm, id)])
     /\ pmm \in StorageMetaMaps
     /\ newMap = NilPartitionMap
     /\ errs = <<>>
     /\ strategy = ""
     /\ pre = [pm |-> pm, bm |-> bm]
     /\ flags \in StorageFlags
     /\ mappings = Mappings(pm)
     /\ plan = EmptyPlan
     /\ relos = NoRelos
     /\ offloadTargets = validateBrokersForRebalance(bm)
     /\ driver = Driver("planning")
     /\ last = NoCall
     /\ op = NoOp

\* pm.Rebuild(bm, pmm, "storage") where no rebalance is under way.
RebuildByStorage ==
  /\ driver.phase = "idle"
  /\ RebuildCall("storage")

NextStorage == RebuildByStorage \/ PlanRelocations \/ ApplyRelocationPlan

SpecStorage == InitStorage /\ [][NextStorage]_vars

(***************************************************************************)
(* The broker map of the tests: one call of Rebuild, SubStorageAll or      *)
(* Update on it.                                                           *)
(***************************************************************************)

InitBrokers ==
  /\ pm \in FixtureMaps
  /\ \E replaced \in SUBSET FixtureIDs :
       bm = FixtureBrokerMap(replaced, [id \in FixtureIDs |-> UsedIn(pm, id)])
  /\ pmm \in FixtureMetaMaps
  /\ newMap = NilPartitionMap
  /\ errs = <<>>
  /\ strategy = ""
  /\ pre = [pm |-> pm, bm |-> bm]
  /\ flags = [tolerance |-> 10, localityScoped |-> FALSE, topPartitionsLimit |-> 1]
  /\ mappings = NoRelos
  /\ plan = EmptyPlan
  /\ relos = NoRelos
  /\ offloadTargets = <<>>
  /\ driver = Driver("idle")
  /\ last = NoCall
  /\ op = NoOp

\* pm.Rebuild(bm, pmm, strat) on the fixture.
RebuildFixture(strat) ==
  /\ op = NoOp
  /\ RebuildCall(strat)

\* bm.SubStorageAll(pm, pmm), the size of every partition of pm being known
\* as in TestSubStorageAll.
SubStorageAllCall ==
  /\ op = NoOp
  /\ strategy = ""
  /\ \A n \in DOMAIN pm.Partitions : SizeErr(pmm, pm.Partitions[n]) = ""
  /\ bm' = SubStorageAll(bm, pm.Partitions, pmm)
  /\ pre' = [pm |-> pm, bm |-> bm]
  /\ op' = [name |-> "SubStorageAll"]
  /\ UNCHANGED <<pm, pmm, newMap, errs, strategy>>
  /\ UNCHANGED rebalanceVars

\* stat := bm.Update(ref, fresh), the metadata holding at least one broker.
UpdateCall(ref, fresh) ==
  /\ op = NoOp
  /\ strategy = ""
  /\ fresh # {}
  /\ \E u \in Update(bm, ref, fresh) :
       /\ bm' = u[2]
       /\ op' = [name |-> "Update", ref |-> ref, fresh |-> fresh, stat |-> u[1]]
  /\ pre' = [pm |-> pm, bm |-> bm]
  /\ UNCHANGED <<pm, pmm, newMap, errs, strategy>>
  /\ UNCHANGED rebalanceVars

NextBrokers ==
  \/ \E strat \in Strategies : RebuildFixture(strat)
  \/ SubStorageAllCall
  \/ \E ref \in SUBSET (UpdateIDs \ {1004}), fresh \in SUBSET (UpdateIDs \ {1002}) :
       UpdateCall(ref, fresh)

SpecBrokers == InitBrokers /\ [][NextBrokers]_vars

(***************************************************************************)
(* Properties of Rebuild.                                                  *)
(***************************************************************************)
Placed == strategy \in {"count", "storage"}

\* The partitions the last Rebuild returned, and the partition of the input
\* map an output partition was built from.
Output == Range(newMap.Partitions)

InputOf(p) ==
  CHOOSE q \in Range(pm.Partitions) : q.Topic = p.Topic /\ q.Partition = p.Partition

\* Whether a soft error of the last Rebuild names the partition p.
Named(p) ==
  \E i \in DOMAIN errs :
    /\ errs[i].Reason # InvalidStrategyError.Reason
    /\ errs[i].Topic = p.Topic
    /\ errs[i].Partition = p.Partition

\* The replicas of the output partition p that the input did not hold.
Replacements(p) == Range(p.Replicas) \ Range(InputOf(p).Replicas)

\* Two positions of p hold brokers of one locality.
Collide(p, i, j) ==
  i # j /\ bm[p.Replicas[i]].Locality = bm[p.Replicas[j]].Locality

\* C1: after a Rebuild by count or by storage no output replica set holds
\* the ID of a broker marked for replacement, the stub ID 0 excepted.
C1_NoReplacedBrokerInOutput ==
  Placed =>
    \A p \in Output : \A r \in Range(p.Replicas) :
      r = StubBrokerID \/ ~bm[r].Replace

\* C1 witness: a Rebuild put a replacement where the input named a broker
\* marked for replacement, and found none for a slot of another partition.
C1_Witness ==
  /\ Placed
  /\ \E p \in Output :
       /\ Replacements(p) # {}
       /\ \E r \in Range(InputOf(p).Replicas) : r # StubBrokerID /\ bm[r].Replace
  /\ \E p \in Output : Named(p)

\* C2: after a Rebuild of a map whose replica sets repeat no broker ID but
\* the stub's, no output replica set holds a broker ID twice.
C2_NoDuplicateReplicas ==
  Placed => \A p \in Output : IsInjective(p.Replicas)

\* C2 witness: by count, a slot of a partition could not be filled and a
\* replica kept from a later slot moved to a lower index.
C2_Witness ==
  /\ strategy = "count"
  /\ \E p \in Output :
       /\ Named(p)
       /\ \E i \in DOMAIN p.Replicas : \E j \in DOMAIN InputOf(p).Replicas :
            i < j /\ p.Replicas[i] = InputOf(p).Replicas[j]

\* C3 as stated: two replicas of one locality in an output partition imply
\* a soft error that names the partition.
C3_CollisionHasSoftError ==
  Placed =>
    \A p \in Output : \A i, j \in DOMAIN p.Replicas :
      Collide(p, i, j) => Named(p)

\* C3 as amended: two replicas of one locality in an output partition are
\* both brokers kept from the input; no replacement shares its locality with
\* another replica of its partition.
C3_CollisionOnlyAmongKept ==
  Placed =>
    \A p \in Output : \A i, j \in DOMAIN p.Replicas :
      Collide(p, i, j) => p.Replicas[i] \notin Replacements(p)
                          /\ p.Replicas[j] \notin Replacements(p)

\* C3 witness: an output partition holds two kept brokers of one locality
\* and no soft error names it.
C3_Witness ==
  /\ Placed
  /\ \E p \in Output :
       /\ \E i, j \in DOMAIN p.Replicas : Collide(p, i, j)
       /\ ~Named(p)

\* C4: by count, every output partition has as many replicas as its input
\* partition unless a soft error names it.
C4_EveryIndexProcessed ==
  strategy = "count" =>
    \A p \in Output :
      Len(p.Replicas) = Len(InputOf(p).Replicas) \/ Named(p)

\* C5: a Rebuild with a strategy other than count and storage returns a nil
\* map and exactly one error, and leaves the input map, its order and the
\* broker map as they were.
C5_InvalidStrategyChangesNothing ==
  strategy \notin {"", "count", "storage"} =>
    /\ newMap.isNil
    /\ Len(errs) = 1
    /\ pm = pre.pm
    /\ bm = pre.bm

\* C5 witness: a Rebuild with an invalid strategy on a map whose order by
\* size differs from the order it is in.
C5_Witness ==
  /\ strategy \notin {"", "count", "storage"}
  /\ pm.Partitions # SortPartitions("size", pmm, pm.Partitions)

(***************************************************************************)
(* Properties of the relocation planner.                                   *)
(***************************************************************************)
\* The moves the last call of planRelocationsForBroker committed.
LastMoves == {last.moves[i] : i \in DOMAIN last.moves}

\* The mean of StorageFree as it was when the last call started.
MeanAtCall == Mean(last.before.brokers)

\* C6: after a move the planner committed, the source's StorageFree is at
\* most mean*(1+tolerance) and the destination's at least
\* mean*(1-tolerance), mean being the mean when the call started.
C6_CommittedMoveWithinLimits ==
  last.called =>
    \A m \in LastMoves :
      /\ bm[m.source].StorageFree * MeanAtCall.n * 100
           <= MeanAtCall.sum * (100 + flags.tolerance)
      /\ bm[m.destination].StorageFree * MeanAtCall.n * 100
           >= MeanAtCall.sum * (100 - flags.tolerance)

\* C6 witness: the last call committed a move of a partition of known size
\* to a broker other than the source.
C6_Witness ==
  /\ last.called
  /\ \E m \in LastMoves :
       /\ m.source # m.destination
       /\ SizeErr(pmm, m.partition) = ""

\* C7: a committed move raises the source's StorageFree and lowers the
\* destination's, each by exactly the size of the partition, and by more
\* than nothing, whether or not the metadata holds the partition's size.
C7_MoveShiftsStorageBySize ==
  last.called =>
    \A m \in LastMoves :
      LET was == last.before.brokers
      IN /\ bm[m.source].StorageFree > was[m.source].StorageFree
         /\ bm[m.source].StorageFree = was[m.source].StorageFree + Size(pmm, m.partition)
         /\ bm[m.destination].StorageFree < was[m.destination].StorageFree
         /\ bm[m.destination].StorageFree
              = was[m.destination].StorageFree - Size(pmm, m.partition)

\* C8: the calls of one pass commit at most one move for a partition, and
\* every relocation in relos is the pair the plan holds for its partition.
C8_OneMovePerPartitionPerPass ==
  /\ \A i, j \in DOMAIN driver.commits :
       i # j => MetaKey(driver.commits[i].partition) # MetaKey(driver.commits[j].partition)
  /\ \A id \in BrokerIDs : \A k \in DOMAIN relos[id] :
       isPlanned(plan, relos[id][k].partition) = <<TRUE, <<id, relos[id][k].destination>>>>

\* C9: a call returns 0 or 1; relos of the source grows and mappings of the
\* source shrinks by what it returns; a call that returns 0 leaves the plan,
\* relos, mappings and every StorageFree as they were.
C9_CallCommitsAtMostOne ==
  last.called =>
    LET was == last.before
        src == last.sourceID
    IN /\ last.r \in {0, 1}
       /\ Len(relos[src]) = Len(was.relos[src]) + last.r
       /\ Len(mappings[src]) = Len(was.mappings[src]) - last.r
       /\ last.r = 0 =>
            /\ plan = was.plan
            /\ relos = was.relos
            /\ mappings = was.mappings
            /\ \A id \in DOMAIN bm : bm[id].StorageFree = was.brokers[id].StorageFree

\* C9 witness: a call committed a move for a source with more than one
\* partition to choose from.
C9_Witness ==
  /\ last.called
  /\ last.r = 1
  /\ Len(last.before.mappings[last.sourceID]) > 1

\* The list `old` with the first occurrence of source replaced by dest.
FirstOccurrenceReplaced(old, source, dest) ==
  IF \A k \in DOMAIN old : old[k] # source THEN old
  ELSE LET first == CHOOSE f \in DOMAIN old :
                      old[f] = source /\ \A k \in 1..(f - 1) : old[k] # source
       IN [old EXCEPT ![first] = dest]

Resized(old, r) ==
  [k \in 1..r |-> IF k <= Len(old) THEN old[k] ELSE StubBrokerID]

\* C11: SetReplication(r) with r > 0 leaves every partition with a replica
\* list of length exactly r, made of the first min(len, r) entries of its
\* previous list followed by the stub ID 0 in every added slot, and leaves
\* topic, partition index, order and version alone; SetReplication(0) changes
\* nothing.
C11_SetReplicationResizes ==
  op.name = "SetReplication" =>
    IF op.r = 0
    THEN pm = pre.pm
    ELSE /\ Len(pm.Partitions) = Len(pre.pm.Partitions)
         /\ pm.Version = pre.pm.Version
         /\ \A n \in DOMAIN pm.Partitions :
              /\ Len(pm.Partitions[n].Replicas) = op.r
              /\ pm.Partitions[n].Replicas = Resized(pre.pm.Partitions[n].Replicas, op.r)
              /\ pm.Partitions[n].Topic = pre.pm.Partitions[n].Topic
              /\ pm.Partitions[n].Partition = pre.pm.Partitions[n].Partition

\* C11 witness: one call with r > 0 has cut one replica list and extended
\* another with the stub.
C11_Witness ==
  /\ op.name = "SetReplication"
  /\ op.r > 0
  /\ \E n \in DOMAIN pm.Partitions :
       /\ Len(pre.pm.Partitions[n].Replicas) > op.r
       /\ pre.pm.Partitions[n].Replicas[1] # StubBrokerID
  /\ \E n \in DOMAIN pm.Partitions :
       /\ Len(pre.pm.Partitions[n].Replicas) < op.r
       /\ pm.Partitions[n].Replicas[op.r] = StubBrokerID

\* C12: for every partition map pm, whatever its version, pm.Copy() is Equal
\* to pm and the copy of the copy is the copy again.
C12_CopyIsEqual ==
  op.name = "Copy" =>
    /\ equal(pm, newMap)[1]
    /\ Copy(newMap) = newMap

\* The position of the first partition at which two partition lists of the
\* same length differ, 0 when there is none.
FirstDifference(pl1, pl2) ==
  IF \E i \in DOMAIN pl1 : pl1[i] # pl2[i]
  THEN CHOOSE i \in DOMAIN pl1 :
         /\ pl1[i] # pl2[i]
         /\ \A j \in 1..(i - 1) : pl1[j] = pl2[j]
  ELSE 0

\* C13: Equal(a, b) is true exactly when a and b have the same number of
\* partitions, the same version and at every position the same topic,
\* partition index and replica sequence; otherwise it is false with the reason
\* of the first failing check: "partitions len", "version", then at the first
\* differing position "topic order", "partition order", "replica list",
\* "replica".
C13_EqualVerdictAndReason ==
  op.name = "Equal" =>
    LET a == pm
        b == op.other
        sameLen == Len(a.Partitions) = Len(b.Partitions)
        d == FirstDifference(a.Partitions, b.Partitions)
    IN /\ op.ok <=> (sameLen /\ a.Version = b.Version /\ d = 0)
       /\ op.ok => op.reason = ""
       /\ ~sameLen => op.reason = "partitions len"
       /\ (sameLen /\ a.Version # b.Version) => op.reason = "version"
       /\ (sameLen /\ a.Version = b.Version /\ d # 0) =>
            LET p1 == a.Partitions[d]
                p2 == b.Partitions[d]
            IN op.reason =
                 IF p1.Topic # p2.Topic THEN "topic order"
                 ELSE IF p1.Partition # p2.Partition THEN "partition order"
                 ELSE IF Len(p1.Replicas) # Len(p2.Replicas) THEN "replica list"
                 ELSE "replica"

\* C13 witness: a comparison of two maps that differ in the version and in a
\* replica has answered "version".
C13_Witness ==
  /\ op.name = "Equal"
  /\ op.reason = "version"
  /\ Len(pm.Partitions) = Len(op.other.Partitions)
  /\ \E n \in DOMAIN pm.Partitions :
       /\ Len(pm.Partitions[n].Replicas) = Len(op.other.Partitions[n].Replicas)
       /\ pm.Partitions[n].Replicas # op.other.Partitions[n].Replicas

(***************************************************************************)
(* Properties of the free storage of the brokers.                          *)
(***************************************************************************)

\* C14: starting from a broker map in which every StorageFree is >= 0 and
\* with a tolerance between 0 and 1, every broker's StorageFree is still >= 0
\* after any storage-strategy placement and any committed rebalance move.
C14_StorageFreeNeverNegative ==
  \A id \in DOMAIN bm : bm[id].StorageFree >= 0

\* C14 witness: at tolerance 1 a call of the planner has met, first, a
\* partition within the source limit but larger than the free storage of its
\* destination, and has not moved it.
C14_Witness ==
  /\ last.called
  /\ flags.tolerance = 100
  /\ LET top == LargestPartitions(last.before.mappings, last.sourceID,
                                  flags.topPartitionsLimit, pmm)
     IN /\ top # <<>>
        /\ \E dest \in selectDestination(last.before.brokers, last.sourceID, top[1],
                                         flags.localityScoped) :
             /\ Size(pmm, top[1]) > last.before.brokers[dest].StorageFree
             /\ ~AboveSourceLimit(last.before.brokers[last.sourceID].StorageFree
                                    + Size(pmm, top[1]), MeanAtCall, flags.tolerance)
             /\ \A i \in DOMAIN last.moves : last.moves[i].partition # top[1]

\* The sizes of the partitions of the map that list the broker as a replica,
\* added up.
RECURSIVE SizeOfReplicasOn(_, _, _)
SizeOfReplicasOn(pl, meta, id) ==
  IF pl = <<>> THEN 0
  ELSE (IF id \in Range(pl[1].Replicas) THEN Size(meta, pl[1]) ELSE 0)
       + SizeOfReplicasOn(Tail(pl), meta, id)

\* C15 as stated: after SubStorageAll(pm, pmm) each broker's StorageFree is
\* its previous value minus the sum of the sizes of the partitions in pm
\* that list it as a replica.
C15_SubStorageAllSubtracts ==
  op.name = "SubStorageAll" =>
    \A id \in DOMAIN bm :
      bm[id].StorageFree =
        pre.bm[id].StorageFree - SizeOfReplicasOn(pm.Partitions, pmm, id)

\* C15 amended: after SubStorageAll(pm, pmm) each broker's StorageFree is
\* its previous value plus the sum of the sizes of the partitions in pm that
\* list it as a replica; a broker holding no replica in pm is unchanged, and
\* nothing but StorageFree changes.
C15_SubStorageAllAdds ==
  op.name = "SubStorageAll" =>
    /\ DOMAIN bm = DOMAIN pre.bm
    /\ \A id \in DOMAIN bm :
         /\ bm[id] = [pre.bm[id] EXCEPT
                        !.StorageFree = @ + SizeOfReplicasOn(pm.Partitions, pmm, id)]
         /\ (\A n \in DOMAIN pm.Partitions : id \notin Range(pm.Partitions[n].Replicas))
              => bm[id] = pre.bm[id]

\* C15 witness: the call of TestSubStorageAll has left 225, 310, 405 and 505.
C15_Witness ==
  /\ op.name = "SubStorageAll"
  /\ pm = TestTopicMap
  /\ bm[1001].StorageFree = 225
  /\ bm[1002].StorageFree = 310
  /\ bm[1003].StorageFree = 405
  /\ bm[1004].StorageFree = 505

ScenarioRebuilt ==
  /\ strategy = "count"
  /\ pre.pm = ScenarioMap
  /\ \A id \in FixtureIDs : pre.bm[id].Replace <=> id = 1003
  /\ pmm.known = {}

\* C17 as stated: in the scenario Rebuild returns partition 0 as
\* [1001,1002,1004] and partition 1 as [1002,1004,1001].
C17_ScenarioAsStated ==
  ScenarioRebuilt =>
    /\ newMap.Partitions[1].Replicas = <<1001, 1002, 1004>>
    /\ newMap.Partitions[2].Replicas = <<1002, 1004, 1001>>

\* C17 amended: in the scenario no broker satisfies locality exclusion for
\* either slot of 1003 (1001 and 1004 share locality a, 1002 has b, and the
\* only broker of locality c is 1003 itself), so Rebuild returns partition 0
\* as [1001,1002] and partition 1 as [1002,1004], with one soft error for
\* each partition.
C17_ScenarioNoCandidate ==
  ScenarioRebuilt =>
    /\ Len(newMap.Partitions) = 2
    /\ newMap.Partitions[1].Replicas = <<1001, 1002>>
    /\ newMap.Partitions[2].Replicas = <<1002, 1004>>
    /\ Len(errs) = 2
    /\ \A n \in 1..2 :
         \E i \in DOMAIN errs :
           /\ errs[i].Topic = newMap.Partitions[n].Topic
           /\ errs[i].Partition = newMap.Partitions[n].Partition
           /\ errs[i].Reason = "no broker"

\* C17 witness: the Rebuild of the scenario has returned.
C17_Witness ==
  /\ ScenarioRebuilt
  /\ newMap.isNil = FALSE
  /\ bm[1003].Replace

(***************************************************************************)
(* Properties of a Rebuild by storage with partitions of unknown size.     *)
(***************************************************************************)

\* The slots of an input partition held by a broker that stays, and those
\* held by a broker marked for replacement.
KeptSlots(p) == {i \in DOMAIN p.Replicas : ~pre.bm[p.Replicas[i]].Replace}

ReplacedSlots(p) == DOMAIN p.Replicas \ KeptSlots(p)

\* The partition of the output with the topic and index of p.
OutputOf(p) == CHOOSE q \in Output : MetaKey(q) = MetaKey(p)

\* The soft errors that name p.
ErrorsNaming(p) ==
  {i \in DOMAIN errs : errs[i].Topic = p.Topic /\ errs[i].Partition = p.Partition}

\* Whether the partition metadata has no entry for p.
AbsentFromMeta(p) == MetaKey(p) \notin pmm.known

\* The storage charged for the replacements of the partitions pl that the
\* metadata knows.
RECURSIVE ChargedFor(_)
ChargedFor(pl) ==
  IF pl = <<>> THEN 0
  ELSE (IF AbsentFromMeta(pl[1]) THEN 0
        ELSE pmm.size[MetaKey(pl[1])]
             * (Len(OutputOf(pl[1]).Replicas) - Cardinality(KeptSlots(pl[1]))))
       + ChargedFor(Tail(pl))

\* What the claim and its amendment share: the Rebuild returns a map of
\* every partition; a partition absent from the metadata comes out with the
\* replicas it keeps and no other; every slot of a partition the metadata
\* knows is either filled or reported; the free storage of the brokers drops
\* by the sizes of the replacements of the known partitions and no more.
UnknownSizeSkipped ==
  /\ ~newMap.isNil
  /\ {MetaKey(q) : q \in Output} = {MetaKey(p) : p \in Range(pre.pm.Partitions)}
  /\ \A p \in Range(pre.pm.Partitions) :
       IF AbsentFromMeta(p)
       THEN /\ Len(OutputOf(p).Replicas) = Cardinality(KeptSlots(p))
            /\ Range(OutputOf(p).Replicas) = {p.Replicas[i] : i \in KeptSlots(p)}
       ELSE Len(OutputOf(p).Replicas)
              + Cardinality({i \in ErrorsNaming(p) : errs[i].Reason = "no broker"})
              = Len(p.Replicas)
  /\ SumStorageFree(pre.bm, BrokerIDs) - SumStorageFree(bm, BrokerIDs)
       = ChargedFor(pre.pm.Partitions)

StartMappings == Mappings(pre.pm)

\* Every committed move has taken one entry of the source's mappings, and
\* no entry has been added: for every broker the entries left and the moves
\* committed make up the entries it started with.
MovesWithinMappings ==
  \A id \in BrokerIDs :
    /\ Len(mappings[id]) + Len(relos[id]) = Len(StartMappings[id])
    /\ Range(mappings[id]) \subseteq Range(StartMappings[id])
    /\ Len(relos[id]) <= Len(StartMappings[id])
    /\ id \notin Range(offloadTargets) => relos[id] = <<>>

\* The passes have ended, and they ended with a pass that committed no move.
PassesEnded == driver.phase # "planning" /\ driver.planned = 0

\* C20: the planning passes, one call of planRelocationsForBroker per
\* offload target per pass, repeated until a pass commits no move, always
\* end; every committed move removes one (source, partition) entry from the
\* mappings and none is added, so the committed moves never exceed the
\* entries the offload targets had at the start.
C20_PassesTerminate == []MovesWithinMappings /\ <>PassesEnded

\* C20 witness: the passes have ended after a third pass, with as many moves
\* committed as entries have left the mappings.
C20_Witness ==
  /\ driver.phase = "planned"
  /\ driver.planned = 0
  /\ driver.pass >= 3
  /\ \E id \in BrokerIDs : Len(relos[id]) >= 2 /\ Len(mappings[id]) < Len(StartMappings[id])

(***************************************************************************)
(* The destinations the planner commits.                                   *)
(***************************************************************************)

\* C21: in both modes of selecting a destination, locality-scoped and by
\* constraints, the destination of every move the planner commits is a
\* broker other than the source of the move.
C21_DestinationIsNotSource ==
  last.called => \A m \in LastMoves : m.destination # m.source

\* The locality-scoped half of C21: with the selection scoped to the
\* locality of the source, a committed destination is never the source.
LocalityScopedDestinationIsNotSource ==
  (last.called /\ flags.localityScoped) =>
    \A m \in LastMoves : m.destination # m.source

\* A locality-scoped call has committed a move.
LocalityScopedMoveCommitted ==
  last.called /\ flags.localityScoped /\ LastMoves # {}

(***************************************************************************)
(* The free storage of the brokers over a rebalance.                       *)
(***************************************************************************)

\* The sum of StorageFree over every broker of a broker map.
TotalStorageFree(brokers) == SumStorageFree(brokers, DOMAIN brokers)

\* C22: every move the planner commits leaves the sum of StorageFree over
\* all brokers as it was, so that the arithmetic mean a call of
\* planRelocationsForBroker computes is the same value throughout a
\* rebalance: the one of the broker map the rebalance started with.
C22_MovesKeepStorageSum ==
  /\ TotalStorageFree(bm) = TotalStorageFree(pre.bm)
  /\ Mean(bm) = Mean(pre.bm)

\* What holds of C22: a call whose committed destination is not its source
\* leaves the sum and the mean as they were when the call started.
MoveToAnotherBrokerKeepsStorageSum ==
  (last.called /\ \A m \in LastMoves : m.destination # m.source) =>
    /\ TotalStorageFree(bm) = TotalStorageFree(last.before.brokers)
    /\ Mean(bm) = Mean(last.before.brokers)

\* A call has committed a move of a partition of known size to a broker
\* other than the source.
MoveToAnotherBrokerCommitted ==
  /\ last.called
  /\ \E m \in LastMoves :
       /\ m.destination # m.source
       /\ Size(pmm, m.partition) > 0

(***************************************************************************)
(* The replica sets a rebalance leaves.                                    *)
(***************************************************************************)

\* No broker ID occurs twice in a replica set of the map.
DuplicateFree(pmap) ==
  \A n \in DOMAIN pmap.Partitions : IsInjective(pmap.Partitions[n].Replicas)

\* C23: from a partition map whose replica sets are duplicate-free, after
\* the planning calls of a rebalance, locality-scoped or by constraints,
\* and applyRelocationPlan, every replica set is still duplicate-free: no
\* committed destination is a broker that already holds a replica of the
\* partition.
C23_ReplicaSetsStayDuplicateFree ==
  /\ DuplicateFree(pre.pm)
  /\ driver.phase = "applied" => DuplicateFree(pm)
  /\ last.called =>
       \A m \in LastMoves :
         m.destination \notin Range(m.partition.Replicas) \ {m.source}

\* The constraint-based half of C23: with the destination selected by
\* constraints, no committed destination holds a replica of the partition
\* and the map the plan is applied to stays duplicate-free.
ConstraintsKeepDuplicateFree ==
  ~flags.localityScoped =>
    /\ driver.phase = "applied" => DuplicateFree(pm)
    /\ last.called =>
         \A m \in LastMoves :
           m.destination \notin Range(m.partition.Replicas) \ {m.source}

\* The plan of a rebalance by constraints has been applied and has moved a
\* replica to another broker.
ConstraintsPlanApplied ==
  /\ ~flags.localityScoped
  /\ driver.phase = "applied"
  /\ pm # pre.pm

====
